---- MODULE Spec2Model ----
(***************************************************************************)
(* Storage deposit meter of the contracts pallet                           *)
(* (frame/contracts/src/storage/meter.rs).                                 *)
(*                                                                         *)
(* One call stack is modelled: a root meter, the nested meters spawned     *)
(* from it along the call/return structure, the storage record             *)
(* (ContractInfo) of each frame's contract and the recording backend       *)
(* (Ext) that receives check_limit and charge calls.                       *)
(*                                                                         *)
(* TLC integers are 32 bit signed, so the u32 counters and the balance     *)
(* type are scaled: U32_MAX and BALANCE_MAX stand for the type bounds and  *)
(* every saturating operation clamps at them.                              *)
(***************************************************************************)
EXTENDS Integers, Sequences, FiniteSets, TLC

(***************************************************************************)
(* Bounds of the model.                                                    *)
(***************************************************************************)
\* nested meters spawned in one call stack
MaxMeters == 3
\* charge and charge_instantiate calls made in one call stack
MaxCharges == 3
\* stand-in for u32::MAX
U32_MAX == 1000
\* stand-in for the maximum of the balance type
BALANCE_MAX == 20000

(***************************************************************************)
(* Configuration of the runtime (T::DepositPerByte, T::DepositPerItem,     *)
(* Pallet::min_balance()).                                                 *)
(***************************************************************************)
DepositPerByte == 1
DepositPerItem == 2
min_balance == 3

ALICE == "ALICE"
BOB == "BOB"
CHARLIE == "CHARLIE"

Min(a, b) == IF a <= b THEN a ELSE b
Max(a, b) == IF a >= b THEN a ELSE b

(***************************************************************************)
(* Saturating arithmetic of u32 and of the balance type.                   *)
(***************************************************************************)
u32_saturating_add(a, b) == Min(a + b, U32_MAX)
u32_saturating_sub(a, b) == Max(a - b, 0)
balance_saturating_add(a, b) == Min(a + b, BALANCE_MAX)
balance_saturating_sub(a, b) == Max(a - b, 0)
balance_saturating_mul(a, b) == Min(a * b, BALANCE_MAX)

(***************************************************************************)
(* StorageDeposit (pallet_contracts_primitives): a tagged amount.          *)
(***************************************************************************)
DepositCharge(a) == [tag |-> "Charge", amount |-> a]
DepositRefund(a) == [tag |-> "Refund", amount |-> a]
\* Default for StorageDeposit
DepositDefault == DepositCharge(0)

is_zero(d) == d.amount = 0
charge_or_zero(d) == IF d.tag = "Charge" THEN d.amount ELSE 0

\* StorageDeposit::saturating_add: same tags add, different tags net
Deposit_saturating_add(l, r) ==
    IF l.tag = "Charge" /\ r.tag = "Charge"
      THEN DepositCharge(balance_saturating_add(l.amount, r.amount))
    ELSE IF l.tag = "Refund" /\ r.tag = "Refund"
      THEN DepositRefund(balance_saturating_add(l.amount, r.amount))
    ELSE IF l.tag = "Charge"
      THEN (IF l.amount >= r.amount
              THEN DepositCharge(balance_saturating_sub(l.amount, r.amount))
              ELSE DepositRefund(balance_saturating_sub(r.amount, l.amount)))
    ELSE (IF l.amount > r.amount
            THEN DepositRefund(balance_saturating_sub(l.amount, r.amount))
            ELSE DepositCharge(balance_saturating_sub(r.amount, l.amount)))

\* StorageDeposit::available: what is left of limit
Deposit_available(d, limit) ==
    IF d.tag = "Charge"
      THEN balance_saturating_sub(limit, d.amount)
      ELSE balance_saturating_add(limit, d.amount)

\* Ord of StorageDeposit (variant order Refund < Charge, then the amount)
Deposit_max(a, b) ==
    IF a.tag = b.tag
      THEN (IF a.amount >= b.amount THEN a ELSE b)
      ELSE (IF a.tag = "Charge" THEN a ELSE b)

(***************************************************************************)
(* FixedU128 (sp_arithmetic), with a scaled denominator.                   *)
(***************************************************************************)
FixedU128_DIV == 100000
\* checked_from_rational(n, d).unwrap_or_default()
checked_from_rational_or_default(n, d) ==
    IF d = 0 THEN 0 ELSE (n * FixedU128_DIV) \div d
\* ratio.saturating_mul_int(b)
saturating_mul_int(ratio, b) == Min((ratio * b) \div FixedU128_DIV, BALANCE_MAX)

(***************************************************************************)
(* Diff and ContractInfo.                                                  *)
(***************************************************************************)
Diff(ba, br, ia, ir) ==
    [bytes_added |-> ba, bytes_removed |-> br, items_added |-> ia, items_removed |-> ir]
DiffDefault == Diff(0, 0, 0, 0)

ContractInfo(b, i, bd, id, base) ==
    [storage_bytes |-> b, storage_items |-> i, storage_byte_deposit |-> bd,
     storage_item_deposit |-> id, storage_base_deposit |-> base]

extra_deposit(info) ==
    balance_saturating_add(info.storage_byte_deposit, info.storage_item_deposit)
total_deposit(info) ==
    balance_saturating_add(extra_deposit(info), info.storage_base_deposit)

\* variant of Diff::saturating_add: bytes_added wraps around instead of clamping
Diff_wrapping_add(self, rhs) ==
    [bytes_added |-> (self.bytes_added + rhs.bytes_added) % (U32_MAX + 1),
     bytes_removed |-> u32_saturating_add(self.bytes_removed, rhs.bytes_removed),
     items_added |-> u32_saturating_add(self.items_added, rhs.items_added),
     items_removed |-> u32_saturating_add(self.items_removed, rhs.items_removed)]

\* Diff::saturating_add
Diff_saturating_add(self, rhs) ==
    [bytes_added |-> u32_saturating_add(self.bytes_added, rhs.bytes_added),
     bytes_removed |-> u32_saturating_add(self.bytes_removed, rhs.bytes_removed),
     items_added |-> u32_saturating_add(self.items_added, rhs.items_added),
     items_removed |-> u32_saturating_add(self.items_removed, rhs.items_removed)]

\* variant of the update of a deposit field of the record: a charge wraps
\* around at the bound of the balance
apply_deposit_wrapping(field, d) ==
    IF d.tag = "Charge"
      THEN (field + d.amount) % (BALANCE_MAX + 1)
      ELSE balance_saturating_sub(field, d.amount)

\* apply a per dimension deposit to a deposit field of the record
apply_deposit(field, d) ==
    IF d.tag = "Charge"
      THEN balance_saturating_add(field, d.amount)
      ELSE balance_saturating_sub(field, d.amount)

\* variant of Diff::update_contract: the ratio of a dimension of which
\* nothing is stored is 1, not 0
Diff_update_contract_whole_of_nothing(self, info, some) ==
    LET bytes_added == u32_saturating_sub(self.bytes_added, self.bytes_removed)
        items_added == u32_saturating_sub(self.items_added, self.items_removed)
        bytes_charge == DepositCharge(balance_saturating_mul(DepositPerByte, bytes_added))
        items_charge == DepositCharge(balance_saturating_mul(DepositPerItem, items_added))
    IN  IF ~some
          THEN [deposit |-> Deposit_saturating_add(bytes_charge, items_charge),
                info |-> info,
                assert_ok |-> self.bytes_removed = 0 /\ self.items_removed = 0]
          ELSE
            LET bytes_removed == u32_saturating_sub(self.bytes_removed, self.bytes_added)
                items_removed == u32_saturating_sub(self.items_removed, self.items_added)
                bratio == IF info.storage_bytes = 0 THEN FixedU128_DIV
                          ELSE Min(checked_from_rational_or_default(bytes_removed, info.storage_bytes),
                              FixedU128_DIV)
                bytes_deposit == Deposit_saturating_add(bytes_charge,
                    DepositRefund(saturating_mul_int(bratio, info.storage_byte_deposit)))
                iratio == IF info.storage_items = 0 THEN FixedU128_DIV
                          ELSE Min(checked_from_rational_or_default(items_removed, info.storage_items),
                              FixedU128_DIV)
                items_deposit == Deposit_saturating_add(items_charge,
                    DepositRefund(saturating_mul_int(iratio, info.storage_item_deposit)))
            IN  [deposit |-> Deposit_saturating_add(bytes_deposit, items_deposit),
                 info |-> [info EXCEPT
                     !.storage_bytes =
                         u32_saturating_sub(u32_saturating_add(@, bytes_added), bytes_removed),
                     !.storage_items =
                         u32_saturating_sub(u32_saturating_add(@, items_added), items_removed),
                     !.storage_byte_deposit = apply_deposit(@, bytes_deposit),
                     !.storage_item_deposit = apply_deposit(@, items_deposit)],
                 assert_ok |-> TRUE]

\* variant of Diff::update_contract: the units removed are not netted against
\* the units added
Diff_update_contract_gross(self, info, some) ==
    LET bytes_added == u32_saturating_sub(self.bytes_added, self.bytes_removed)
        items_added == u32_saturating_sub(self.items_added, self.items_removed)
        bytes_charge == DepositCharge(balance_saturating_mul(DepositPerByte, bytes_added))
        items_charge == DepositCharge(balance_saturating_mul(DepositPerItem, items_added))
    IN  IF ~some
          THEN [deposit |-> Deposit_saturating_add(bytes_charge, items_charge),
                info |-> info,
                assert_ok |-> self.bytes_removed = 0 /\ self.items_removed = 0]
          ELSE
            LET bytes_removed == self.bytes_removed
                items_removed == self.items_removed
                bratio == Min(checked_from_rational_or_default(bytes_removed, info.storage_bytes),
                              FixedU128_DIV)
                bytes_deposit == Deposit_saturating_add(bytes_charge,
                    DepositRefund(saturating_mul_int(bratio, info.storage_byte_deposit)))
                iratio == Min(checked_from_rational_or_default(items_removed, info.storage_items),
                              FixedU128_DIV)
                items_deposit == Deposit_saturating_add(items_charge,
                    DepositRefund(saturating_mul_int(iratio, info.storage_item_deposit)))
            IN  [deposit |-> Deposit_saturating_add(bytes_deposit, items_deposit),
                 info |-> [info EXCEPT
                     !.storage_bytes =
                         u32_saturating_sub(u32_saturating_add(@, bytes_added), bytes_removed),
                     !.storage_items =
                         u32_saturating_sub(u32_saturating_add(@, items_added), items_removed),
                     !.storage_byte_deposit = apply_deposit(@, bytes_deposit),
                     !.storage_item_deposit = apply_deposit(@, items_deposit)],
                 assert_ok |-> TRUE]

\* variant of Diff::update_contract: with no record the removals are
\* refunded at the price of an addition
Diff_update_contract_refund_at_price(self, info, some) ==
    IF ~some
      THEN [deposit |-> Deposit_saturating_add(
                            DepositCharge(DepositPerByte * self.bytes_added
                                          + DepositPerItem * self.items_added),
                            DepositRefund(DepositPerByte * self.bytes_removed
                                          + DepositPerItem * self.items_removed)),
            info |-> info,
            assert_ok |-> self.bytes_removed = 0 /\ self.items_removed = 0]
      ELSE [deposit |-> DepositDefault, info |-> info, assert_ok |-> TRUE]

\* variant of Diff::update_contract: the deposit fields of the record are
\* updated, its counters are not
Diff_update_contract_stale_counters(self, info, some) ==
    LET bytes_added == u32_saturating_sub(self.bytes_added, self.bytes_removed)
        items_added == u32_saturating_sub(self.items_added, self.items_removed)
        bytes_charge == DepositCharge(balance_saturating_mul(DepositPerByte, bytes_added))
        items_charge == DepositCharge(balance_saturating_mul(DepositPerItem, items_added))
    IN  IF ~some
          THEN [deposit |-> Deposit_saturating_add(bytes_charge, items_charge),
                info |-> info,
                assert_ok |-> self.bytes_removed = 0 /\ self.items_removed = 0]
          ELSE
            LET bytes_removed == u32_saturating_sub(self.bytes_removed, self.bytes_added)
                items_removed == u32_saturating_sub(self.items_removed, self.items_added)
                bratio == Min(checked_from_rational_or_default(bytes_removed, info.storage_bytes),
                              FixedU128_DIV)
                bytes_deposit == Deposit_saturating_add(bytes_charge,
                    DepositRefund(saturating_mul_int(bratio, info.storage_byte_deposit)))
                iratio == Min(checked_from_rational_or_default(items_removed, info.storage_items),
                              FixedU128_DIV)
                items_deposit == Deposit_saturating_add(items_charge,
                    DepositRefund(saturating_mul_int(iratio, info.storage_item_deposit)))
            IN  [deposit |-> Deposit_saturating_add(bytes_deposit, items_deposit),
                 info |-> [info EXCEPT
                     !.storage_byte_deposit = apply_deposit(@, bytes_deposit),
                     !.storage_item_deposit = apply_deposit(@, items_deposit)],
                 assert_ok |-> TRUE]

\* variant of Diff::update_contract: the ratio removed / stored is not capped at 1
Diff_update_contract_unclamped(self, info, some) ==
    LET bytes_added == u32_saturating_sub(self.bytes_added, self.bytes_removed)
        items_added == u32_saturating_sub(self.items_added, self.items_removed)
        bytes_charge == DepositCharge(balance_saturating_mul(DepositPerByte, bytes_added))
        items_charge == DepositCharge(balance_saturating_mul(DepositPerItem, items_added))
    IN  IF ~some
          THEN [deposit |-> Deposit_saturating_add(bytes_charge, items_charge),
                info |-> info,
                assert_ok |-> self.bytes_removed = 0 /\ self.items_removed = 0]
          ELSE
            LET bytes_removed == u32_saturating_sub(self.bytes_removed, self.bytes_added)
                items_removed == u32_saturating_sub(self.items_removed, self.items_added)
                bratio == checked_from_rational_or_default(bytes_removed, info.storage_bytes)
                bytes_deposit == Deposit_saturating_add(bytes_charge,
                    DepositRefund(saturating_mul_int(bratio, info.storage_byte_deposit)))
                iratio == checked_from_rational_or_default(items_removed, info.storage_items)
                items_deposit == Deposit_saturating_add(items_charge,
                    DepositRefund(saturating_mul_int(iratio, info.storage_item_deposit)))
            IN  [deposit |-> Deposit_saturating_add(bytes_deposit, items_deposit),
                 info |-> [info EXCEPT
                     !.storage_bytes =
                         u32_saturating_sub(u32_saturating_add(@, bytes_added), bytes_removed),
                     !.storage_items =
                         u32_saturating_sub(u32_saturating_add(@, items_added), items_removed),
                     !.storage_byte_deposit = apply_deposit(@, bytes_deposit),
                     !.storage_item_deposit = apply_deposit(@, items_deposit)],
                 assert_ok |-> TRUE]

\* Diff::update_contract; some = FALSE is info = None.  assert_ok is the
\* conjunction of the debug assertions on the path taken.
Diff_update_contract(self, info, some) ==
    LET bytes_added == u32_saturating_sub(self.bytes_added, self.bytes_removed)
        items_added == u32_saturating_sub(self.items_added, self.items_removed)
        bytes_charge == DepositCharge(balance_saturating_mul(DepositPerByte, bytes_added))
        items_charge == DepositCharge(balance_saturating_mul(DepositPerItem, items_added))
    IN  IF ~some
          THEN [deposit |-> Deposit_saturating_add(bytes_charge, items_charge),
                info |-> info,
                assert_ok |-> self.bytes_removed = 0 /\ self.items_removed = 0]
          ELSE
            LET bytes_removed == u32_saturating_sub(self.bytes_removed, self.bytes_added)
                items_removed == u32_saturating_sub(self.items_removed, self.items_added)
                bratio == Min(checked_from_rational_or_default(bytes_removed, info.storage_bytes),
                              FixedU128_DIV)
                bytes_deposit == Deposit_saturating_add(bytes_charge,
                    DepositRefund(saturating_mul_int(bratio, info.storage_byte_deposit)))
                iratio == Min(checked_from_rational_or_default(items_removed, info.storage_items),
                              FixedU128_DIV)
                items_deposit == Deposit_saturating_add(items_charge,
                    DepositRefund(saturating_mul_int(iratio, info.storage_item_deposit)))
            IN  [deposit |-> Deposit_saturating_add(bytes_deposit, items_deposit),
                 info |-> [info EXCEPT
                     !.storage_bytes =
                         u32_saturating_sub(u32_saturating_add(@, bytes_added), bytes_removed),
                     !.storage_items =
                         u32_saturating_sub(u32_saturating_add(@, items_added), items_removed),
                     !.storage_byte_deposit = apply_deposit(@, bytes_deposit),
                     !.storage_item_deposit = apply_deposit(@, items_deposit)],
                 assert_ok |-> TRUE]

(***************************************************************************)
(* Contribution: the storage changes recorded by one meter.                *)
(***************************************************************************)
Alive(diff) == [kind |-> "Alive", diff |-> diff]
Checked(deposit) == [kind |-> "Checked", deposit |-> deposit]
Terminated(deposit) == [kind |-> "Terminated", deposit |-> deposit]
ContributionDefault == Alive(DiffDefault)

\* Contribution::update_contract
Contribution_update_contract(self, info, some) ==
    IF self.kind = "Alive"
      THEN Diff_update_contract(self.diff, info, some)
      ELSE [deposit |-> self.deposit, info |-> info, assert_ok |-> TRUE]

(***************************************************************************)
(* RawMeter.                                                               *)
(***************************************************************************)
\* Charge: one deferred entry of the ledger
ChargeEntry(contract, amount, terminated) ==
    [contract |-> contract, amount |-> amount, terminated |-> terminated]

\* RawMeter { limit, ..Default::default() }
RawMeter(limit) ==
    [limit |-> limit, total_deposit |-> DepositDefault,
     own_contribution |-> ContributionDefault, charges |-> << >>]

is_alive(self) == self.own_contribution.kind = "Alive"
is_terminated(self) == self.own_contribution.kind = "Terminated"
available(self) == Deposit_available(self.total_deposit, self.limit)

\* variant of RawMeter::nested: the child starts with a copy of the ledger
\* of self
nested_copies_ledger(self) == [RawMeter(available(self)) EXCEPT !.charges = self.charges]

\* variant of RawMeter::nested: the child takes the whole limit of self
nested_whole_limit(self) == RawMeter(self.limit)

\* RawMeter::nested: the child; self is borrowed immutably
nested(self) == RawMeter(available(self))

\* variant of RawMeter::absorb: the total of the child replaces the total of
\* self instead of being added to it
absorb_overwrites_total(self, absorbed, contract, info, some) ==
    LET r == Contribution_update_contract(absorbed.own_contribution, info, some)
        own_deposit == r.deposit
        total == Deposit_saturating_add(absorbed.total_deposit, own_deposit)
    IN  [meter |-> [self EXCEPT
                     !.total_deposit = total,
                     !.charges = IF ~is_zero(own_deposit)
                                   THEN Append(@ \o absorbed.charges,
                                               ChargeEntry(contract, own_deposit,
                                                           is_terminated(absorbed)))
                                   ELSE @],
         info |-> r.info,
         deposit |-> own_deposit,
         assert_ok |-> r.assert_ok]

\* variant of RawMeter::absorb: the entry of the child is pushed before the
\* ledger of the child
absorb_entry_first(self, absorbed, contract, info, some) ==
    LET r == Contribution_update_contract(absorbed.own_contribution, info, some)
        own_deposit == r.deposit
        total == Deposit_saturating_add(
                     Deposit_saturating_add(self.total_deposit, absorbed.total_deposit),
                     own_deposit)
    IN  [meter |-> [self EXCEPT
                     !.total_deposit = total,
                     !.charges = IF ~is_zero(own_deposit)
                                   THEN Append(@, ChargeEntry(contract, own_deposit,
                                                              is_terminated(absorbed)))
                                            \o absorbed.charges
                                   ELSE @],
         info |-> r.info,
         deposit |-> own_deposit,
         assert_ok |-> r.assert_ok]

\* variant of RawMeter::absorb: an entry is pushed for a zero deposit too
absorb_always_push(self, absorbed, contract, info, some) ==
    LET r == Contribution_update_contract(absorbed.own_contribution, info, some)
        own_deposit == r.deposit
        total == Deposit_saturating_add(
                     Deposit_saturating_add(self.total_deposit, absorbed.total_deposit),
                     own_deposit)
    IN  [meter |-> [self EXCEPT
                     !.total_deposit = total,
                     !.charges = Append(@ \o absorbed.charges,
                                        ChargeEntry(contract, own_deposit,
                                                    is_terminated(absorbed)))],
         info |-> r.info,
         deposit |-> own_deposit,
         assert_ok |-> r.assert_ok]

\* RawMeter::absorb: the new self and the record after settling the child
absorb(self, absorbed, contract, info, some) ==
    LET r == Contribution_update_contract(absorbed.own_contribution, info, some)
        own_deposit == r.deposit
        total == Deposit_saturating_add(
                     Deposit_saturating_add(self.total_deposit, absorbed.total_deposit),
                     own_deposit)
    IN  [meter |-> [self EXCEPT
                     !.total_deposit = total,
                     !.charges = IF ~is_zero(own_deposit)
                                   THEN Append(@ \o absorbed.charges,
                                          ChargeEntry(contract, own_deposit,
                                                      is_terminated(absorbed)))
                                   ELSE @],
         info |-> r.info,
         deposit |-> own_deposit,
         assert_ok |-> r.assert_ok]

\* one call of Ext::charge as the backend sees it
ExtCharge(origin, c) ==
    [origin |-> origin, contract |-> c.contract, amount |-> c.amount,
     terminated |-> c.terminated]

IsRefund(c) == c.amount.tag = "Refund"
IsCharge(c) == c.amount.tag = "Charge"

MapExtCharge(origin, cs) == [i \in 1..Len(cs) |-> ExtCharge(origin, cs[i])]

\* variant of into_deposit: one pass over the ledger, in ledger order
into_deposit_ledger_order(self, origin) ==
    [calls |-> MapExtCharge(origin, self.charges),
     deposit |-> self.total_deposit]

\* variant of into_deposit: the first pass is not filtered, so that Charge
\* entries are settled in both passes
into_deposit_unfiltered_pass(self, origin) ==
    [calls |-> MapExtCharge(origin, self.charges)
               \o MapExtCharge(origin, SelectSeq(self.charges, IsCharge)),
     deposit |-> self.total_deposit]

\* RawMeter::<Root>::into_deposit: the backend calls made, in order, and
\* the returned deposit
into_deposit(self, origin) ==
    [calls |-> MapExtCharge(origin, SelectSeq(self.charges, IsRefund))
               \o MapExtCharge(origin, SelectSeq(self.charges, IsCharge)),
     deposit |-> self.total_deposit]

\* variant of charge: a diff whose additions alone exceed the limit is refused
charge_within_limit(self, diff) ==
    LET sum == Diff_saturating_add(self.own_contribution.diff, diff)
    IN  IF DepositPerByte * sum.bytes_added + DepositPerItem * sum.items_added
               > self.limit
          THEN self
          ELSE [self EXCEPT !.own_contribution = Alive(sum)]

\* variant of charge: the limit of the meter is lowered by the price of the
\* bytes added
charge_lowers_limit(self, diff) ==
    [self EXCEPT !.own_contribution = Alive(Diff_saturating_add(@.diff, diff)),
                 !.limit = Max(@ - DepositPerByte * diff.bytes_added, 0)]

\* RawMeter::<Nested>::charge on an alive meter
charge(self, diff) ==
    [self EXCEPT !.own_contribution = Alive(Diff_saturating_add(@.diff, diff))]

\* variant of charge_instantiate: the deposit is not raised to the minimum
\* balance
charge_instantiate_no_floor(self, origin, contract, info, size) ==
    LET deposit == Diff_update_contract(Diff(size % (U32_MAX + 1), 0, 1, 0), info, FALSE).deposit
    IN  IF charge_or_zero(deposit) > self.limit
          THEN [result |-> "StorageDepositLimitExhausted", meter |-> self, info |-> info,
                calls |-> << >>, deposit |-> deposit]
          ELSE [result |-> "Ok",
                meter |-> [self EXCEPT !.total_deposit = deposit],
                info |-> [info EXCEPT !.storage_base_deposit = charge_or_zero(deposit)],
                calls |-> IF ~is_zero(deposit)
                            THEN << ExtCharge(origin, ChargeEntry(contract, deposit, FALSE)) >>
                            ELSE << >>,
                deposit |-> deposit]

\* variant of charge_instantiate: a deposit equal to the limit is refused
charge_instantiate_strict(self, origin, contract, info, size) ==
    LET d0 == Diff_update_contract(Diff(size % (U32_MAX + 1), 0, 1, 0), info, FALSE).deposit
        deposit == Deposit_max(d0, DepositCharge(min_balance))
    IN  IF charge_or_zero(deposit) >= self.limit
          THEN [result |-> "StorageDepositLimitExhausted", meter |-> self, info |-> info,
                calls |-> << >>, deposit |-> deposit]
          ELSE [result |-> "Ok",
                meter |-> [self EXCEPT !.total_deposit = deposit],
                info |-> [info EXCEPT !.storage_base_deposit = charge_or_zero(deposit)],
                calls |-> IF ~is_zero(deposit)
                            THEN << ExtCharge(origin, ChargeEntry(contract, deposit, FALSE)) >>
                            ELSE << >>,
                deposit |-> deposit]

\* variant of charge_instantiate: the backend is charged before the limit
\* is compared, so also when the call fails
charge_instantiate_eager(self, origin, contract, info, size) ==
    LET d0 == Diff_update_contract(Diff(size % (U32_MAX + 1), 0, 1, 0), info, FALSE).deposit
        deposit == Deposit_max(d0, DepositCharge(min_balance))
        made == IF ~is_zero(deposit)
                  THEN << ExtCharge(origin, ChargeEntry(contract, deposit, FALSE)) >>
                  ELSE << >>
    IN  IF charge_or_zero(deposit) > self.limit
          THEN [result |-> "StorageDepositLimitExhausted", meter |-> self, info |-> info,
                calls |-> made, deposit |-> deposit]
          ELSE [result |-> "Ok",
                meter |-> [self EXCEPT !.total_deposit = deposit],
                info |-> [info EXCEPT !.storage_base_deposit = charge_or_zero(deposit)],
                calls |-> made,
                deposit |-> deposit]

\* RawMeter::<Nested>::charge_instantiate; size is info.encoded_size()
charge_instantiate(self, origin, contract, info, size) ==
    LET d0 == Diff_update_contract(Diff(size % (U32_MAX + 1), 0, 1, 0), info, FALSE).deposit
        deposit == Deposit_max(d0, DepositCharge(min_balance))
    IN  IF charge_or_zero(deposit) > self.limit
          THEN [result |-> "StorageDepositLimitExhausted", meter |-> self, info |-> info,
                calls |-> << >>, deposit |-> deposit]
          ELSE [result |-> "Ok",
                meter |-> [self EXCEPT !.total_deposit = deposit],
                info |-> [info EXCEPT !.storage_base_deposit = charge_or_zero(deposit)],
                calls |-> IF ~is_zero(deposit)
                            THEN << ExtCharge(origin, ChargeEntry(contract, deposit, FALSE)) >>
                            ELSE << >>,
                deposit |-> deposit]

\* variant of terminate: the refund is also added to the total deposit
terminate_books_refund(self, info) ==
    [self EXCEPT !.own_contribution = Terminated(DepositRefund(total_deposit(info))),
                 !.total_deposit = Deposit_saturating_add(@, DepositRefund(total_deposit(info)))]

\* variant of terminate: the diff charged so far is netted into the refund
terminate_net_of_diff(self, info) ==
    [self EXCEPT !.own_contribution =
        Terminated(Deposit_saturating_add(
            DepositRefund(total_deposit(info)),
            Contribution_update_contract(@, info, FALSE).deposit))]

\* RawMeter::<Nested>::terminate
terminate(self, info) ==
    [self EXCEPT !.own_contribution = Terminated(DepositRefund(total_deposit(info)))]

\* variant of enforce_limit: the contribution becomes Checked whatever it was
enforce_limit_overrides(self, info, some) ==
    LET r == Contribution_update_contract(self.own_contribution, info, some)
        deposit == r.deposit
        total == Deposit_saturating_add(self.total_deposit, deposit)
    IN  [result |-> IF total.tag = "Charge" /\ total.amount > self.limit
                      THEN "StorageDepositLimitExhausted" ELSE "Ok",
         meter |-> [self EXCEPT !.own_contribution = Checked(deposit)],
         info |-> r.info,
         deposit |-> deposit,
         assert_ok |-> r.assert_ok]

\* variant of enforce_limit: the deposit of a contribution that is not Alive
\* is left out of the comparison with the limit
enforce_limit_alive_only(self, info, some) ==
    LET r == Contribution_update_contract(self.own_contribution, info, some)
        deposit == r.deposit
        total == IF is_alive(self)
                   THEN Deposit_saturating_add(self.total_deposit, deposit)
                   ELSE self.total_deposit
    IN  [result |-> IF total.tag = "Charge" /\ total.amount > self.limit
                      THEN "StorageDepositLimitExhausted" ELSE "Ok",
         meter |-> IF is_alive(self)
                     THEN [self EXCEPT !.own_contribution = Checked(deposit)]
                     ELSE self,
         info |-> r.info,
         deposit |-> deposit,
         assert_ok |-> r.assert_ok]

\* variant of enforce_limit: the contribution stays as it was, so that an
\* Alive diff is settled again by the next call
enforce_limit_stays_alive(self, info, some) ==
    LET r == Contribution_update_contract(self.own_contribution, info, some)
        deposit == r.deposit
        total == Deposit_saturating_add(self.total_deposit, deposit)
    IN  [result |-> IF total.tag = "Charge" /\ total.amount > self.limit
                      THEN "StorageDepositLimitExhausted" ELSE "Ok",
         meter |-> self,
         info |-> r.info,
         deposit |-> deposit,
         assert_ok |-> r.assert_ok]

\* variant of enforce_limit: a total equal to the limit is refused
enforce_limit_strict(self, info, some) ==
    LET r == Contribution_update_contract(self.own_contribution, info, some)
        deposit == r.deposit
        total == Deposit_saturating_add(self.total_deposit, deposit)
    IN  [result |-> IF total.tag = "Charge" /\ total.amount >= self.limit
                      THEN "StorageDepositLimitExhausted" ELSE "Ok",
         meter |-> IF is_alive(self)
                     THEN [self EXCEPT !.own_contribution = Checked(deposit)]
                     ELSE self,
         info |-> r.info,
         deposit |-> deposit,
         assert_ok |-> r.assert_ok]

\* RawMeter::<Nested>::enforce_limit
enforce_limit(self, info, some) ==
    LET r == Contribution_update_contract(self.own_contribution, info, some)
        deposit == r.deposit
        total == Deposit_saturating_add(self.total_deposit, deposit)
    IN  [result |-> IF total.tag = "Charge" /\ total.amount > self.limit
                      THEN "StorageDepositLimitExhausted" ELSE "Ok",
         meter |-> IF is_alive(self)
                     THEN [self EXCEPT !.own_contribution = Checked(deposit)]
                     ELSE self,
         info |-> r.info,
         deposit |-> deposit,
         assert_ok |-> r.assert_ok]

\* variant of dropping a nested meter: what the child had absorbed stays
\* merged in its parent
drop_keeps_total(parent, dropped) ==
    [parent EXCEPT !.total_deposit =
        Deposit_saturating_add(@, dropped.total_deposit)]

\* dropping a nested meter: the value vanishes, its parent is not touched
drop(parent, dropped) == parent

(***************************************************************************)
(* ReservingExt::check_limit.  limit is an Option; reducible is            *)
(* Currency::reducible_balance(origin), can_withdraw the outcome of        *)
(* Currency::can_withdraw(origin, limit).                                  *)
(***************************************************************************)
None == [some |-> FALSE, val |-> 0]
Some(v) == [some |-> TRUE, val |-> v]

check_limit(origin, limit, min_leftover, reducible, can_withdraw) ==
    LET max == balance_saturating_sub(reducible, min_leftover)
        lim == IF limit.some THEN limit.val ELSE max
    IN  IF lim <= max /\ can_withdraw
          THEN [result |-> "Ok", limit |-> lim]
          ELSE [result |-> "StorageDepositNotEnoughFunds", limit |-> lim]

\* variant of new: the meter takes the requested limit, not the one returned
\* by check_limit
new_requested_limit(origin, limit, min_leftover, reducible, can_withdraw) ==
    LET r == check_limit(origin, limit, min_leftover, reducible, can_withdraw)
    IN  IF r.result = "Ok"
          THEN [result |-> "Ok", limit |-> limit.val, meters |-> << RawMeter(limit.val) >>]
          ELSE [result |-> r.result, limit |-> limit.val, meters |-> << >>]

\* RawMeter::<Root>::new: the result and the meters that exist afterwards
new(origin, limit, min_leftover, reducible, can_withdraw) ==
    LET r == check_limit(origin, limit, min_leftover, reducible, can_withdraw)
    IN  IF r.result = "Ok"
          THEN [result |-> "Ok", limit |-> r.limit, meters |-> << RawMeter(r.limit) >>]
          ELSE [result |-> r.result, limit |-> r.limit, meters |-> << >>]

(***************************************************************************)
(* Inputs of the host.                                                     *)
(***************************************************************************)
\* the contract called by the n-th sub call
ContractOf(n) == IF n % 2 = 1 THEN BOB ELSE CHARLIE
DiffInputs == {Diff(4, 0, 1, 0), Diff(0, 3, 0, 1)}
\* the storage record of each contract when its frame starts
InfoOf(c) == IF c = BOB THEN ContractInfo(4, 2, 4, 4, 3) ELSE ContractInfo(2, 1, 2, 6, 3)
EncodedSizes == {3}
LimitInputs == {None, Some(6), Some(7)}
MinLeftoverInputs == {0}
ReducibleInputs == {6}

(***************************************************************************)
(* State.                                                                  *)
(*   stack   the meters of the call stack, the root first; each frame      *)
(*           holds its meter, the contract and record of the frame and     *)
(*           history fields (parent_at_spawn, enforced, expected) that no  *)
(*           operation reads                                               *)
(*   ext     the backend: the check_limit and charge calls it received     *)
(*   pc      "init", "running", "done" (into_deposit consumed the root),   *)
(*           "failed" (new returned an error), "panicked" (an assertion    *)
(*           or panic! aborted the call), "violated" (a build without      *)
(*           debug assertions executed a call whose precondition did not   *)
(*           hold; the run is not followed further)                        *)
(*   last    the last operation, its result and the deposit it settled     *)
(*   spawned number of nested meters spawned so far                        *)
(*   calls   number of charge and charge_instantiate calls made so far     *)
(*   deposit_start  number of backend charge calls before into_deposit     *)
(*   sound   history: the host kept the call stack discipline so far       *)
(*   charged history: the inputs applied one after the other by the        *)
(*           specifications other than Spec (not used by Spec)             *)
(* The build profile (debug_assert! compiled in or not) shows only at the  *)
(* first call whose debug assertion fails: there the debug build panics    *)
(* and the release build executes the call, so the profile is chosen at    *)
(* that call.                                                              *)
(***************************************************************************)
VARIABLES stack, ext, pc, last, spawned, calls, deposit_start, sound, charged

vars == << stack, ext, pc, last, spawned, calls, deposit_start, sound, charged >>

Frame(meter, contract, info, parent) ==
    [meter |-> meter, contract |-> contract, info |-> info,
     parent_at_spawn |-> parent, enforced |-> FALSE, expected |-> << >>]

Last(op, result, deposit) == [op |-> op, result |-> result, deposit |-> deposit]

top == stack[Len(stack)]
parent == stack[Len(stack) - 1]
SetTop(f) == [stack EXCEPT ![Len(stack)] = f]
Pop(f) == [SubSeq(stack, 1, Len(stack) - 1) EXCEPT ![Len(stack) - 1] = f]

\* a meter on which nothing has happened since it was spawned
IsFresh(m) == m = RawMeter(m.limit)

\* where a call whose debug assertions hold (ok) or not leaves the run
After(ok) == IF ok THEN "running" ELSE "violated"

Init ==
    /\ stack = << >>
    /\ ext = [limit_checks |-> << >>, charges |-> << >>]
    /\ pc = "init"
    /\ last = Last("none", "Ok", DepositDefault)
    /\ spawned = 0
    /\ calls = 0
    /\ deposit_start = 0
    /\ sound = TRUE
    /\ charged = << >>

\* a failed assertion or panic!: the call aborts, nothing is changed
Panic(op) ==
    /\ pc' = "panicked"
    /\ last' = Last(op, "Panic", DepositDefault)
    /\ UNCHANGED << stack, ext, spawned, calls, deposit_start, sound, charged >>

New ==
    /\ pc = "init"
    /\ \E limit \in LimitInputs, min_leftover \in MinLeftoverInputs,
          reducible \in ReducibleInputs, can_withdraw \in BOOLEAN :
         LET r == new(ALICE, limit, min_leftover, reducible, can_withdraw)
         IN  /\ stack' = [i \in 1..Len(r.meters) |->
                             Frame(r.meters[i], ALICE, ContractInfo(0, 0, 0, 0, 0),
                                   r.meters[i])]
             /\ ext' = [ext EXCEPT !.limit_checks =
                           Append(@, [origin |-> ALICE, limit |-> r.limit,
                                      min_leftover |-> min_leftover])]
             /\ pc' = IF r.result = "Ok" THEN "running" ELSE "failed"
             /\ last' = Last("new", r.result, DepositDefault)
    /\ UNCHANGED << spawned, calls, deposit_start, sound, charged >>

Nested ==
    /\ pc = "running"
    /\ spawned < MaxMeters
    /\ \/ ~is_alive(top.meter) /\ Panic("nested")
       \/ /\ LET c == ContractOf(spawned + 1)
              IN  stack' = Append(stack, Frame(nested(top.meter), c, InfoOf(c), top.meter))
          /\ spawned' = spawned + 1
          /\ pc' = After(is_alive(top.meter))
          /\ last' = Last("nested", "Ok", DepositDefault)
          /\ UNCHANGED << ext, calls, deposit_start, sound, charged >>

Charge ==
    /\ pc = "running"
    /\ Len(stack) > 1
    /\ calls < MaxCharges
    /\ IF ~is_alive(top.meter)
         THEN Panic("charge")
         ELSE /\ \E diff \in DiffInputs :
                    stack' = SetTop([top EXCEPT !.meter = charge(@, diff),
                                                !.enforced = FALSE])
              /\ calls' = calls + 1
              /\ last' = Last("charge", "Ok", DepositDefault)
              /\ UNCHANGED << ext, pc, spawned, deposit_start, sound, charged >>

ChargeInstantiate ==
    /\ pc = "running"
    /\ Len(stack) > 1
    /\ calls < MaxCharges
    /\ \/ ~is_alive(top.meter) /\ Panic("charge_instantiate")
       \/ \E size \in EncodedSizes :
                LET r == charge_instantiate(top.meter, ALICE, top.contract, top.info, size)
                IN  /\ stack' = SetTop([top EXCEPT !.meter = r.meter,
                                                   !.info = r.info,
                                                   !.enforced = FALSE])
                    /\ calls' = calls + 1
                    /\ ext' = [ext EXCEPT !.charges = @ \o r.calls]
                    /\ pc' = After(is_alive(top.meter))
                    /\ last' = Last("charge_instantiate", r.result, r.deposit)
                    /\ sound' = (sound /\ IsFresh(top.meter))
                    /\ UNCHANGED << spawned, deposit_start, charged >>

Terminate ==
    /\ pc = "running"
    /\ Len(stack) > 1
    /\ \/ ~is_alive(top.meter) /\ Panic("terminate")
       \/ /\ stack' = SetTop([top EXCEPT !.meter = terminate(@, top.info),
                                          !.enforced = FALSE])
          /\ pc' = After(is_alive(top.meter))
          /\ last' = Last("terminate", "Ok", DepositDefault)
          /\ UNCHANGED << ext, spawned, calls, deposit_start, sound, charged >>

EnforceLimit ==
    /\ pc = "running"
    /\ Len(stack) > 1
    /\ \E some \in BOOLEAN :
         LET r == enforce_limit(top.meter, top.info, some)
         IN  \/ ~r.assert_ok /\ Panic("enforce_limit")
             \/     /\ stack' = SetTop([top EXCEPT !.meter = r.meter,
                                                   !.info = r.info,
                                                   !.enforced = (r.result = "Ok")])
                    /\ pc' = After(r.assert_ok)
                    /\ last' = Last("enforce_limit", r.result, r.deposit)
                    /\ UNCHANGED << ext, spawned, calls, deposit_start, sound, charged >>

Absorb ==
    /\ pc = "running"
    /\ Len(stack) > 1
    /\ \E some \in BOOLEAN :
         LET r == absorb(parent.meter, top.meter, top.contract, top.info, some)
         IN  \/ ~r.assert_ok /\ Panic("absorb")
             \/     /\ stack' = Pop([parent EXCEPT
                          !.meter = r.meter,
                          !.enforced = FALSE,
                          !.expected = @ \o top.expected \o
                              (IF ~is_zero(r.deposit)
                                 THEN << ChargeEntry(top.contract, r.deposit,
                                                     is_terminated(top.meter)) >>
                                 ELSE << >>)])
                    /\ pc' = After(r.assert_ok)
                    /\ last' = Last("absorb", "Ok", r.deposit)
                    /\ sound' = (sound /\ (Len(stack) = 2 => top.enforced))
                    /\ UNCHANGED << ext, spawned, calls, deposit_start, charged >>

Drop ==
    /\ pc = "running"
    /\ Len(stack) > 1
    /\ stack' = Pop([parent EXCEPT !.meter = drop(@, top.meter)])
    /\ last' = Last("drop", "Ok", DepositDefault)
    /\ sound' = FALSE
    /\ UNCHANGED << ext, pc, spawned, calls, deposit_start, charged >>

\* variant of IntoDeposit: the root meter is borrowed, not consumed
IntoDeposit_borrows ==
    /\ pc = "running"
    /\ Len(stack) = 1
    /\ LET r == into_deposit(top.meter, ALICE)
       IN  /\ ext' = [ext EXCEPT !.charges = @ \o r.calls]
           /\ last' = Last("into_deposit", "Ok", r.deposit)
    /\ deposit_start' = Len(ext.charges)
    /\ UNCHANGED << stack, pc, spawned, calls, sound, charged >>

IntoDeposit ==
    /\ pc = "running"
    /\ Len(stack) = 1
    /\ LET r == into_deposit(top.meter, ALICE)
       IN  /\ ext' = [ext EXCEPT !.charges = @ \o r.calls]
           /\ last' = Last("into_deposit", "Ok", r.deposit)
    /\ deposit_start' = Len(ext.charges)
    /\ pc' = "done"
    /\ UNCHANGED << stack, spawned, calls, sound, charged >>

Next ==
    \/ New
    \/ Nested
    \/ Charge
    \/ ChargeInstantiate
    \/ Terminate
    \/ EnforceLimit
    \/ Absorb
    \/ Drop
    \/ IntoDeposit

Spec == Init /\ [][Next]_vars

(***************************************************************************)
(* Helpers of the properties.                                              *)
(***************************************************************************)
\* a deposit as a signed amount: what the origin pays
Signed(d) == IF d.tag = "Charge" THEN d.amount ELSE 0 - d.amount

RECURSIVE NetOf(_)
\* net amount taken from the origin by a sequence of backend charge calls
NetOf(cs) == IF cs = << >> THEN 0 ELSE Signed(Head(cs).amount) + NetOf(Tail(cs))

\* number of positions of sequence q that hold e
Count(e, q) == Cardinality({i \in 1..Len(q) : q[i] = e})

\* the backend charge calls made by into_deposit
SettledCalls == SubSeq(ext.charges, deposit_start + 1, Len(ext.charges))

root == stack[1]

\* C1: into_deposit calls the backend for every Refund entry of the ledger
\* before it calls it for any Charge entry, whatever the ledger order.
C1_RefundsBeforeCharges ==
    pc = "done" =>
        \A i, j \in 1..Len(SettledCalls) :
            (IsCharge(SettledCalls[i]) /\ IsRefund(SettledCalls[j])) => j < i

\* C1 witness: a settled ledger in which a Charge entry precedes a Refund entry
C1_Witness ==
    /\ pc = "done"
    /\ \E i, j \in 1..Len(root.meter.charges) :
           /\ i < j
           /\ IsCharge(root.meter.charges[i])
           /\ IsRefund(root.meter.charges[j])

\* C2: no more balance than the limit returned by check_limit is ever
\* charged.  In an execution in which every meter absorbed by the root had
\* passed enforce_limit (and, in favour of the claim, no meter was dropped
\* and charge_instantiate was only called on fresh meters), the net amount
\* the backend is asked to take from the origin over all its charge calls
\* does not exceed the root's limit.
C2_NetWithinLimit ==
    (pc = "done" /\ sound) => NetOf(ext.charges) <= root.meter.limit

\* C3: enforce_limit returns Ok iff total_deposit plus the settled own
\* contribution, as a signed amount, is at most the limit, and fails with
\* StorageDepositLimitExhausted otherwise.
C3_EnforceLimitIff ==
    (last.op = "enforce_limit" /\ last.result # "Panic") =>
        /\ last.result \in {"Ok", "StorageDepositLimitExhausted"}
        /\ (last.result = "Ok") <=>
               (Signed(top.meter.total_deposit) + Signed(last.deposit) <= top.meter.limit)

\* C3 witness: a candidate total exactly equal to a non-zero limit passes
C3_Witness ==
    /\ last.op = "enforce_limit"
    /\ last.result = "Ok"
    /\ top.meter.limit > 0
    /\ Signed(top.meter.total_deposit) + Signed(last.deposit) = top.meter.limit

\* C4: the deposit returned by into_deposit equals the net (Charges minus
\* Refunds) of all amounts passed to the backend's charge during the
\* execution.  Stated, in favour of the claim, for the executions in which
\* no meter was dropped, charge_instantiate was only called on fresh meters
\* and every meter absorbed by the root had passed enforce_limit.
C4_TotalIsNetOfCalls ==
    (pc = "done" /\ sound) => Signed(last.deposit) = NetOf(ext.charges)

\* C5: when a nested meter is dropped its parent is exactly as it was when
\* the child was spawned, whatever happened on the child in between
\* (charge, charge_instantiate, terminate, enforce_limit, grandchildren
\* spawned and absorbed); while a child lives its parent does not change.
C5_DropLeavesParent ==
    /\ [](\A i \in 2..Len(stack) : stack[i].parent_at_spawn = stack[i - 1].meter)
    /\ [][last'.op = "drop" =>
            stack'[Len(stack')].meter = stack[Len(stack)].parent_at_spawn]_vars

\* C5 witness: a nested meter has just been dropped after charges were made
\* below the root, and the root is as it was constructed
C5_Witness ==
    /\ last.op = "drop"
    /\ Len(stack) = 1
    /\ spawned = 2
    /\ calls >= 1
    /\ IsFresh(root.meter)

\* C6: into_deposit settles every entry of the root's ledger exactly once:
\* as many backend calls as ledger entries, each with the origin and the
\* entry's account, amount and terminated flag, and within the refund pass
\* and within the charge pass in ledger order.
C6_EveryEntryOnce ==
    pc = "done" =>
        /\ Len(SettledCalls) = Len(root.meter.charges)
        /\ \A k \in 1..Len(root.meter.charges) :
               Count(ExtCharge(ALICE, root.meter.charges[k]), SettledCalls)
                   = Count(root.meter.charges[k], root.meter.charges)
        /\ SelectSeq(SettledCalls, IsRefund)
               = MapExtCharge(ALICE, SelectSeq(root.meter.charges, IsRefund))
        /\ SelectSeq(SettledCalls, IsCharge)
               = MapExtCharge(ALICE, SelectSeq(root.meter.charges, IsCharge))

\* C6 witness: a settled ledger with two refunds and a charge
C6_Witness ==
    /\ pc = "done"
    /\ Len(SelectSeq(root.meter.charges, IsRefund)) >= 2
    /\ Len(SelectSeq(root.meter.charges, IsCharge)) >= 1

\* C7: every nested meter absorbed, directly or through a chain of
\* absorptions, into the root with a non-zero settled own deposit is settled
\* by into_deposit with exactly one backend call for its account and amount,
\* whatever the settled deposits of the frames in between.
C7_AbsorbedFramesSettled ==
    pc = "done" =>
        \A k \in 1..Len(root.expected) :
            Count(ExtCharge(ALICE, root.expected[k]), SettledCalls)
                = Count(root.expected[k], root.expected)

\* C8: absorbing a child whose settled own deposit is exactly zero appends
\* no entry to the parent's ledger.
C8_ZeroSuppression ==
    [][(last'.op = "absorb" /\ last'.result = "Ok" /\ is_zero(last'.deposit)) =>
          stack'[Len(stack')].meter.charges = stack[Len(stack) - 1].meter.charges]_vars

\* C8 witness: the only nested meter was absorbed by the root (not dropped)
\* with a zero deposit, and into_deposit made no backend call
C8_Witness ==
    /\ pc = "done"
    /\ sound
    /\ spawned = 1
    /\ ext.charges = << >>

\* C9: terminate sets the own contribution to
\* Terminated(Refund(record.total_deposit)) whatever was charged before, and
\* when a terminated meter is absorbed with a non-zero refund the entry
\* appended for it is that Refund with terminated = TRUE.
C9_TerminateFullRefund ==
    /\ []((last.op = "terminate" /\ last.result = "Ok") =>
            top.meter.own_contribution
                = Terminated(DepositRefund(total_deposit(top.info))))
    /\ [][(last'.op = "absorb" /\ last'.result = "Ok" /\ is_terminated(top.meter)) =>
            /\ last'.deposit = DepositRefund(total_deposit(top.info))
            /\ ~is_zero(last'.deposit) =>
                   stack'[Len(stack')].meter.charges
                       = Append(parent.meter.charges \o top.meter.charges,
                                ChargeEntry(top.contract,
                                            DepositRefund(total_deposit(top.info)),
                                            TRUE))]_vars

\* C9 witness: the only nested meter was charged, terminated and absorbed
C9_Witness ==
    /\ last.op = "absorb"
    /\ spawned = 1
    /\ calls >= 1
    /\ ext.charges = << >>
    /\ Len(root.meter.charges) = 1
    /\ root.meter.charges[1].terminated
    /\ IsRefund(root.meter.charges[1])


(***************************************************************************)
(* SpecCharge: repeated charge on one alive nested meter, with diffs       *)
(* that reach the bound of u32.                                            *)
(***************************************************************************)
\* diffs charged one after the other on one meter
MaxChargeSeq == 3

WideDiffs ==
    {Diff(1, 0, 0, 2), Diff(0, 3, 1, 0), Diff(U32_MAX - 1, 0, 0, 1),
     Diff(2, U32_MAX, 0, 0), Diff(0, 0, U32_MAX - 2, 5)}

\* the state after new(ALICE, Some(6), 0) and one nested()
InitCharge ==
    /\ stack = << Frame(RawMeter(6), ALICE, ContractInfo(0, 0, 0, 0, 0), RawMeter(6)),
                  Frame(nested(RawMeter(6)), BOB, InfoOf(BOB), RawMeter(6)) >>
    /\ ext = [limit_checks |-> << [origin |-> ALICE, limit |-> 6, min_leftover |-> 0] >>,
              charges |-> << >>]
    /\ pc = "running"
    /\ last = Last("nested", "Ok", DepositDefault)
    /\ spawned = 1
    /\ calls = 0
    /\ deposit_start = 0
    /\ sound = TRUE
    /\ charged = << >>

ChargeSeq ==
    /\ pc = "running"
    /\ is_alive(top.meter)
    /\ Len(charged) < MaxChargeSeq
    /\ \E diff \in WideDiffs :
          /\ stack' = SetTop([top EXCEPT !.meter = charge(@, diff)])
          /\ charged' = Append(charged, diff)
    /\ last' = Last("charge", "Ok", DepositDefault)
    /\ UNCHANGED << ext, pc, spawned, calls, deposit_start, sound >>

NextCharge == ChargeSeq

SpecCharge == InitCharge /\ [][NextCharge]_vars

RECURSIVE SumField(_, _)
\* plain sum of one field over a sequence of diffs
SumField(q, f) == IF q = << >> THEN 0 ELSE Head(q)[f] + SumField(Tail(q), f)

\* field-wise sum of a sequence of diffs, clamped at the bound of u32
SumDiff(q) ==
    Diff(Min(SumField(q, "bytes_added"), U32_MAX),
         Min(SumField(q, "bytes_removed"), U32_MAX),
         Min(SumField(q, "items_added"), U32_MAX),
         Min(SumField(q, "items_removed"), U32_MAX))

\* C10: charging a sequence of diffs one after the other, in any order,
\* leaves the own contribution that a single charge of their field-wise
\* saturating sum on a fresh meter leaves.
C10_ChargeIsSum ==
    top.meter.own_contribution
        = charge(nested(root.meter), SumDiff(charged)).own_contribution

\* C10 witness: three diffs, not all equal, whose sum saturates a field
C10_Witness ==
    /\ Len(charged) = 3
    /\ charged[1] # charged[2]
    /\ SumField(charged, "bytes_added") > U32_MAX
    /\ top.meter.own_contribution.diff.bytes_added = U32_MAX

(***************************************************************************)
(* SpecSettle: one Diff settled against one storage record by              *)
(* Diff::update_contract(Some(info)).  stack[1].info is the record before  *)
(* the call, stack[2].info the record after it, charged the diff and       *)
(* last.deposit the deposit returned.                                      *)
(***************************************************************************)
\* (stored units, recorded deposit) of one dimension of a record
ByteSides == {<< 0, 0 >>, << 1, 7 >>, << 3, 10 >>, << 4, 4 >>}
ItemSides == {<< 0, 0 >>, << 2, 4 >>, << 3, 5 >>}
SettleInfos == {ContractInfo(b[1], i[1], b[2], i[2], 3) : b \in ByteSides, i \in ItemSides}
SettleDiffs ==
    {Diff(ba, br, ia, ir) : ba \in {0, 2}, br \in {0, 1, 3, 5}, ia \in {0, 1}, ir \in {0, 1, 4}}

InitSettle ==
    /\ \E info \in SettleInfos :
          stack = << Frame(RawMeter(6), BOB, info, RawMeter(6)) >>
    /\ ext = [limit_checks |-> << >>, charges |-> << >>]
    /\ pc = "running"
    /\ last = Last("none", "Ok", DepositDefault)
    /\ spawned = 0
    /\ calls = 0
    /\ deposit_start = 0
    /\ sound = TRUE
    /\ charged = << >>

Settle ==
    /\ pc = "running"
    /\ \E diff \in SettleDiffs :
          LET r == Diff_update_contract(diff, top.info, TRUE)
          IN  /\ stack' = Append(stack, [top EXCEPT !.info = r.info])
              /\ charged' = << diff >>
              /\ last' = Last("update_contract", "Ok", r.deposit)
    /\ pc' = "done"
    /\ UNCHANGED << ext, spawned, calls, deposit_start, sound >>

NextSettle == Settle

SpecSettle == InitSettle /\ [][NextSettle]_vars

\* the refund of one dimension is right: removed units m of n stored units
\* with recorded deposit d gave the refund x
RefundOk(m, n, d, x) ==
    IF m >= n
      THEN x = d
      ELSE x * n <= d * m /\ d * m <= (x + 1) * n

NumOrderOps == 6

\* the child absorbed by operation op, spawned from meter self
OrderChild(self, op) ==
    CASE op = 3 -> charge(nested(self), Diff(0, 3, 0, 1))
      [] op = 4 -> LET child == nested(self)
                       grandchild == charge(nested(child), Diff(3, 0, 1, 0))
                   IN  charge(absorb(child, grandchild, BOB, InfoOf(BOB), TRUE).meter,
                              Diff(2, 0, 0, 0))
      [] op = 5 -> terminate(charge(nested(self), Diff(1, 0, 0, 0)), InfoOf(CHARLIE))

\* operation op applied to meter self
ApplyOp(self, op) ==
    CASE op = 1 -> charge(self, Diff(4, 0, 1, 0))
      [] op = 2 -> charge(self, Diff(0, 3, 0, 1))
      [] op = 6 -> charge(self, Diff(0, 0, 0, 1))
      [] op = 5 -> absorb(self, OrderChild(self, op), CHARLIE, InfoOf(CHARLIE), FALSE).meter
      [] op \in {3, 4} ->
             absorb(self, OrderChild(self, op), CHARLIE, InfoOf(CHARLIE), TRUE).meter
      [] OTHER  -> charge(self, Diff(op, 0, 0, 0))

InitOrder ==
    /\ \E limit \in {6, 12} :
          stack = << Frame(RawMeter(limit), ALICE, ContractInfo(0, 0, 0, 0, 0),
                           RawMeter(limit)),
                     Frame(nested(RawMeter(limit)), BOB, InfoOf(BOB), RawMeter(limit)) >>
    /\ ext = [limit_checks |-> << >>, charges |-> << >>]
    /\ pc = "running"
    /\ last = Last("nested", "Ok", DepositDefault)
    /\ spawned = 1
    /\ calls = 0
    /\ deposit_start = 0
    /\ sound = TRUE
    /\ charged = << >>

OrderApply ==
    /\ pc = "running"
    /\ \E op \in 1..NumOrderOps :
          /\ \A k \in 1..Len(charged) : charged[k] # op
          /\ stack' = SetTop([top EXCEPT !.meter = ApplyOp(@, op)])
          /\ charged' = Append(charged, op)
          /\ last' = Last(IF op \in {3, 4, 5} THEN "absorb" ELSE "charge", "Ok",
                          DepositDefault)
    /\ UNCHANGED << ext, pc, spawned, calls, deposit_start, sound >>

OrderEnforce ==
    /\ pc = "running"
    /\ LET r == enforce_limit(top.meter, top.info, TRUE)
       IN  /\ stack' = SetTop([top EXCEPT !.meter = r.meter, !.info = r.info,
                                          !.enforced = (r.result = "Ok")])
           /\ last' = Last("enforce_limit", r.result, r.deposit)
    /\ pc' = "done"
    /\ UNCHANGED << ext, spawned, calls, deposit_start, sound, charged >>

NextOrder ==
    \/ OrderApply
    \/ OrderEnforce

SpecOrder == InitOrder /\ [][NextOrder]_vars

RECURSIVE ApplyAscending(_, _, _)
\* the operations of set ops from number op on, applied in ascending order
ApplyAscending(self, ops, op) ==
    IF op > NumOrderOps
      THEN self
      ELSE ApplyAscending(IF op \in ops THEN ApplyOp(self, op) ELSE self, ops, op + 1)

\* C14: the result of enforce_limit on a nested meter, the own deposit it
\* settles and the total it compares with the limit depend only on the
\* collection of diffs charged on the meter and of children absorbed into
\* it, not on their order: they are those of the same operations applied in
\* ascending order.
C14_OrderIndependent ==
    pc = "done" =>
        LET ops == {charged[k] : k \in 1..Len(charged)}
            fresh == nested(root.meter)
            r == enforce_limit(ApplyAscending(fresh, ops, 1), InfoOf(BOB), TRUE)
        IN  /\ last.result = r.result
            /\ last.deposit = r.deposit
            /\ top.meter.total_deposit = r.meter.total_deposit
            /\ top.info = r.info

\* C14 witness: an absorption followed by two charges, out of ascending
\* order, and an enforce_limit that fails
C14_Witness ==
    /\ pc = "done"
    /\ charged = << 4, 1, 6 >>
    /\ root.meter.limit = 6
    /\ last.result = "StorageDepositLimitExhausted"

(***************************************************************************)
(* SpecNew: RawMeter::new over a range of requested limits, leftovers and  *)
(* balances of the origin.  ext.limit_checks holds the arguments of each   *)
(* check_limit call and charged the inputs of the call of new.             *)
(***************************************************************************)
\* balances and limits range over 0..MaxNewBalance
MaxNewBalance == 5
\* min_leftover ranges over 0..MaxNewLeftover
MaxNewLeftover == 2

NewLimitInputs == {None} \cup {Some(v) : v \in 0..MaxNewBalance}

\* the arguments of E::check_limit(origin, limit, min_leftover) in new
check_limit_args(origin, limit, min_leftover) ==
    [origin |-> origin, limit |-> limit, min_leftover |-> min_leftover]

NewCall ==
    /\ pc = "init"
    /\ \E limit \in NewLimitInputs, min_leftover \in 0..MaxNewLeftover,
          reducible \in 0..MaxNewBalance, can_withdraw \in BOOLEAN :
         LET r == new(ALICE, limit, min_leftover, reducible, can_withdraw)
         IN  /\ stack' = [i \in 1..Len(r.meters) |->
                             Frame(r.meters[i], ALICE, ContractInfo(0, 0, 0, 0, 0),
                                   r.meters[i])]
             /\ ext' = [ext EXCEPT !.limit_checks =
                           Append(@, check_limit_args(ALICE, limit, min_leftover))]
             /\ pc' = IF r.result = "Ok" THEN "running" ELSE "failed"
             /\ last' = Last("new", r.result, DepositDefault)
             /\ charged' = << [limit |-> limit, min_leftover |-> min_leftover,
                               reducible |-> reducible, can_withdraw |-> can_withdraw] >>
    /\ UNCHANGED << spawned, calls, deposit_start, sound >>

NextNew == NewCall

SpecNew == Init /\ [][NextNew]_vars

\* C15: new calls check_limit exactly once, with the origin, the requested
\* limit and min_leftover it was given, and makes no charge call; on success
\* the meter has the limit check_limit returned, a zero total_deposit, an
\* Alive contribution with an empty diff and an empty ledger; on an error of
\* check_limit new returns that error and there is no meter.
C15_NewChecksLimitOnce ==
    last.op = "new" =>
        LET in == charged[1]
            r == check_limit(ALICE, in.limit, in.min_leftover, in.reducible,
                             in.can_withdraw)
        IN  /\ ext.limit_checks
                   = << [origin |-> ALICE, limit |-> in.limit,
                         min_leftover |-> in.min_leftover] >>
            /\ ext.charges = << >>
            /\ last.result = r.result
            /\ IF r.result = "Ok"
                 THEN /\ Len(stack) = 1
                      /\ stack[1].meter
                           = [limit |-> r.limit,
                              total_deposit |-> DepositCharge(0),
                              own_contribution |-> Alive(Diff(0, 0, 0, 0)),
                              charges |-> << >>]
                 ELSE stack = << >>

\* C15 witness: new without a requested limit succeeded and the meter has
\* the limit the backend computed from the balance of the origin
C15_Witness ==
    /\ last.op = "new"
    /\ last.result = "Ok"
    /\ charged[1].limit = None
    /\ charged[1].reducible = 5
    /\ charged[1].min_leftover = 2
    /\ stack[1].meter.limit = 3

\* C16: a root meter is consumed by into_deposit at most once: into_deposit
\* takes the meter by value, so no operation follows it and no into_deposit
\* step follows another one.
C16_ConsumedOnce ==
    [][/\ pc # "done"
       /\ last'.op = "into_deposit" => last.op # "into_deposit"]_vars

\* C16 witness: into_deposit has settled a ledger of one entry
C16_Witness ==
    /\ pc = "done"
    /\ last.op = "into_deposit"
    /\ Len(root.meter.charges) = 1
    /\ Len(SettledCalls) = 1

(***************************************************************************)
(* SpecScenario: the call sequence of tests::charging_works, for a range   *)
(* of root limits and of items removed by the first child.  charged holds  *)
(* one entry per step made: the record the step settled (or the record of  *)
(* the frame it acted on), its result and the diff it charged.             *)
(***************************************************************************)
ScenarioLimits == {96, 97, 98, 99, 100, 101, 102, 103, 104, 105}
ScenarioRemoved == {4, 5}
\* new_info of nested0, nested1 and nested2
ScenarioInfo0 == ContractInfo(100, 5, 100, 10, 0)
ScenarioInfo1 == ContractInfo(100, 10, 100, 20, 0)
ScenarioInfo2 == ContractInfo(100, 7, 100, 20, 0)

ScenarioEntry(info, result, diff) == [info |-> info, result |-> result, diff |-> diff]

\* one step of the test; k is the number of the step
ScenarioStep ==
    LET k == Len(charged) + 1
        Push(c, info) ==
            /\ stack' = Append(stack, Frame(nested(top.meter), c, info, top.meter))
            /\ charged' = Append(charged, ScenarioEntry(info, "Ok", DiffDefault))
            /\ last' = Last("nested", "Ok", DepositDefault)
            /\ UNCHANGED << ext, pc >>
        ChargeTop(diff) ==
            /\ stack' = SetTop([top EXCEPT !.meter = charge(@, diff)])
            /\ charged' = Append(charged, ScenarioEntry(top.info, "Ok", diff))
            /\ last' = Last("charge", "Ok", DepositDefault)
            /\ UNCHANGED << ext, pc >>
        AbsorbTop ==
            LET r == absorb(parent.meter, top.meter, top.contract, top.info, TRUE)
            IN  /\ stack' = Pop([parent EXCEPT !.meter = r.meter])
                /\ charged' = Append(charged, ScenarioEntry(r.info, "Ok", DiffDefault))
                /\ last' = Last("absorb", "Ok", r.deposit)
                /\ UNCHANGED << ext, pc >>
    IN  /\ pc \in {"init", "running"}
        /\ CASE k = 1 ->
                  \E limit \in ScenarioLimits :
                     LET r == new(ALICE, Some(limit), 0, limit, TRUE)
                     IN  /\ stack' = << Frame(r.meters[1], ALICE,
                                              ContractInfo(0, 0, 0, 0, 0), r.meters[1]) >>
                         /\ ext' = [ext EXCEPT !.limit_checks =
                                       Append(@, [origin |-> ALICE, limit |-> r.limit,
                                                  min_leftover |-> 0])]
                         /\ charged' = Append(charged,
                                           ScenarioEntry(ContractInfo(0, 0, 0, 0, 0), r.result,
                                                         DiffDefault))
                         /\ last' = Last("new", r.result, DepositDefault)
                         /\ pc' = "running"
             [] k = 2 -> Push(BOB, ScenarioInfo0)
             [] k = 3 -> ChargeTop(Diff(108, 5, 1, 2))
             [] k = 4 -> ChargeTop(Diff(0, 99, 0, 0))
             [] k = 5 -> Push(CHARLIE, ScenarioInfo1)
             [] k = 6 -> \E removed \in ScenarioRemoved : ChargeTop(Diff(0, 0, 0, removed))
             [] k = 7 -> AbsorbTop
             [] k = 8 -> Push(CHARLIE, ScenarioInfo2)
             [] k = 9 -> ChargeTop(Diff(0, 0, 0, 7))
             [] k = 10 -> AbsorbTop
             [] k = 11 ->
                  LET r == enforce_limit(top.meter, top.info, TRUE)
                  IN  /\ stack' = SetTop([top EXCEPT !.meter = r.meter, !.info = r.info,
                                                     !.enforced = (r.result = "Ok")])
                      /\ charged' = Append(charged, ScenarioEntry(r.info, r.result, DiffDefault))
                      /\ last' = Last("enforce_limit", r.result, r.deposit)
                      /\ UNCHANGED << ext, pc >>
             [] k = 12 -> AbsorbTop
             [] k = 13 ->
                  LET r == into_deposit(top.meter, ALICE)
                  IN  /\ ext' = [ext EXCEPT !.charges = @ \o r.calls]
                      /\ charged' = Append(charged, ScenarioEntry(top.info, "Ok", DiffDefault))
                      /\ last' = Last("into_deposit", "Ok", r.deposit)
                      /\ pc' = "done"
                      /\ UNCHANGED stack
             [] OTHER -> FALSE
        /\ UNCHANGED << spawned, calls, deposit_start, sound >>

NextScenario == ScenarioStep

SpecScenario == Init /\ [][NextScenario]_vars

\* byte plus item deposit of a record
ByteItemDeposit(info) == info.storage_byte_deposit + info.storage_item_deposit

\* C17: in the scenario with root limit 100 in which the first child removes
\* 5 items, frame A passes enforce_limit, into_deposit makes exactly the
\* backend calls Refund(10) and Refund(20) for the children's account and
\* then Charge(2) for A's account, none terminated, and the records end with
\* byte plus item deposit 112 (A), 110 (child 1) and 100 (child 2).
C17_ChargingWorks ==
    (pc = "done" /\ root.meter.limit = 100 /\ charged[6].diff = Diff(0, 0, 0, 5)) =>
        /\ charged[11].result = "Ok"
        /\ ext.charges
             = << [origin |-> ALICE, contract |-> CHARLIE,
                   amount |-> DepositRefund(10), terminated |-> FALSE],
                  [origin |-> ALICE, contract |-> CHARLIE,
                   amount |-> DepositRefund(20), terminated |-> FALSE],
                  [origin |-> ALICE, contract |-> BOB,
                   amount |-> DepositCharge(2), terminated |-> FALSE] >>
        /\ ByteItemDeposit(charged[12].info) = 112
        /\ ByteItemDeposit(charged[7].info) = 110
        /\ ByteItemDeposit(charged[10].info) = 100

\* C17 witness: the scenario has run to its end with root limit 100 and the
\* first child settled to a refund of 10
C17_Witness ==
    /\ pc = "done"
    /\ Len(charged) = 13
    /\ root.meter.limit = 100
    /\ charged[6].diff = Diff(0, 0, 0, 5)
    /\ Len(ext.charges) = 3

\* C18: absorb sets the total_deposit of the parent to its former total plus
\* the total of the child plus the settled own deposit of the child, netted;
\* when that own deposit is non-zero the parent's ledger becomes its former
\* entries, then the child's whole ledger in its order, then one entry with
\* the account given to absorb, the settled amount and terminated =
\* child.is_terminated().
C18_AbsorbTotalsAndLedger ==
    [][(last'.op = "absorb" /\ last'.result = "Ok") =>
          LET after == stack'[Len(stack')].meter
          IN  /\ \E some \in BOOLEAN :
                    last'.deposit
                        = Contribution_update_contract(top.meter.own_contribution,
                                                       top.info, some).deposit
              /\ Signed(after.total_deposit)
                     = Signed(parent.meter.total_deposit)
                           + Signed(top.meter.total_deposit) + Signed(last'.deposit)
              /\ after.limit = parent.meter.limit
              /\ after.own_contribution = parent.meter.own_contribution
              /\ ~is_zero(last'.deposit) =>
                     after.charges
                         = parent.meter.charges \o top.meter.charges
                               \o << [contract |-> top.contract,
                                      amount |-> last'.deposit,
                                      terminated |-> is_terminated(top.meter)] >>]_vars

\* C18 witness: the root held an entry and has absorbed a child that held an
\* entry of its own, with a non-zero own deposit
C18_Witness ==
    /\ pc = "running"
    /\ last.op = "absorb"
    /\ ~is_zero(last.deposit)
    /\ Len(stack) = 1
    /\ Len(root.meter.charges) = 3
    /\ root.meter.charges[1].contract = ContractOf(1)
    /\ root.meter.charges[2].contract = ContractOf(3)
    /\ root.meter.charges[3].contract = ContractOf(2)

\* C19: enforce_limit changes the own contribution of an Alive meter to
\* Checked(settled own deposit) only when the limit check succeeds: when it
\* returns StorageDepositLimitExhausted the own contribution is still Alive
\* with the accumulated diff.
C19_CheckedOnlyOnSuccess ==
    [][(last'.op = "enforce_limit" /\ is_alive(top.meter)) =>
          stack'[Len(stack')].meter.own_contribution
              = IF last'.result = "Ok"
                  THEN Checked(last'.deposit)
                  ELSE top.meter.own_contribution]_vars

\* C20: enforce_limit on a Terminated meter leaves own_contribution the same
\* Terminated(Refund) value, total_deposit and the storage record as they
\* were, and still adds that refund to total_deposit for the comparison with
\* the limit.
C20_EnforceAfterTerminate ==
    [][(last'.op = "enforce_limit" /\ last'.result # "Panic"
            /\ is_terminated(top.meter)) =>
          LET after == stack'[Len(stack')]
              refund == top.meter.own_contribution.deposit
          IN  /\ refund.tag = "Refund"
              /\ after.meter = top.meter
              /\ after.info = top.info
              /\ last'.deposit = refund
              /\ (last'.result = "Ok") <=>
                     (Signed(top.meter.total_deposit) - refund.amount
                          <= top.meter.limit)]_vars

\* C20 witness: enforce_limit passed on a Terminated meter whose
\* total_deposit alone exceeds its limit
C20_Witness ==
    /\ pc = "running"
    /\ last.op = "enforce_limit"
    /\ last.result = "Ok"
    /\ Len(stack) > 1
    /\ is_terminated(top.meter)
    /\ Signed(top.meter.total_deposit) > top.meter.limit

\* C21: the accumulated diff of a frame is applied to its record exactly
\* once: once enforce_limit has settled a meter against its record, an
\* absorb of that meter with the same record, or another enforce_limit,
\* returns the deposit already settled and leaves the record as it is.
C21_SettledOnce ==
    (last.op = "enforce_limit" /\ last.result # "Panic" /\ pc = "running") =>
        \A some \in BOOLEAN :
            LET a == absorb(parent.meter, top.meter, top.contract, top.info, some)
                e == enforce_limit(top.meter, top.info, some)
            IN  /\ a.deposit = last.deposit
                /\ a.info = top.info
                /\ a.assert_ok
                /\ e.deposit = last.deposit
                /\ e.info = top.info
                /\ e.meter = top.meter

\* C21 witness: enforce_limit has settled a non-zero deposit of an Alive
\* meter and changed the record of the frame
C21_Witness ==
    /\ pc = "running"
    /\ last.op = "enforce_limit"
    /\ last.result = "Ok"
    /\ top.meter.own_contribution = Checked(last.deposit)
    /\ ~is_zero(last.deposit)
    /\ top.info # InfoOf(top.contract)

\* C22: nested() on an alive meter returns a child whose limit is what is
\* available to the parent (its limit minus its total_deposit when that is a
\* Charge, floored at 0), whose total_deposit is zero, whose own
\* contribution is Alive with an all-zero diff and whose ledger is empty;
\* the parent is not modified.
C22_NestedChild ==
    [][(last'.op = "nested" /\ last'.result = "Ok" /\ pc' = "running") =>
          LET child == stack'[Len(stack')].meter
          IN  /\ Len(stack') = Len(stack) + 1
              /\ SubSeq(stack', 1, Len(stack)) = stack
              /\ top.meter.total_deposit.tag = "Charge" =>
                     child.limit
                         = IF top.meter.limit >= top.meter.total_deposit.amount
                             THEN top.meter.limit - top.meter.total_deposit.amount
                             ELSE 0
              /\ child.total_deposit = DepositCharge(0)
              /\ child.own_contribution = Alive(Diff(0, 0, 0, 0))
              /\ child.charges = << >>]_vars

\* C22 witness: a child spawned from a parent whose total_deposit is a
\* Charge above its limit has the limit 0
C22_Witness ==
    /\ pc = "running"
    /\ last.op = "nested"
    /\ Len(stack) > 2
    /\ parent.meter.total_deposit.tag = "Charge"
    /\ parent.meter.total_deposit.amount > parent.meter.limit
    /\ top.meter.limit = 0

MaxInstLimit == 8
\* info.encoded_size() ranges over 0..MaxInstSize
MaxInstSize == 6

InitInstantiate ==
    /\ \E limit \in 0..MaxInstLimit, diff \in {DiffDefault, Diff(4, 0, 1, 0)} :
          stack = << Frame(RawMeter(limit), ALICE, ContractInfo(0, 0, 0, 0, 0),
                           RawMeter(limit)),
                     Frame(charge(nested(RawMeter(limit)), diff), BOB,
                           ContractInfo(0, 0, 0, 0, 0), RawMeter(limit)) >>
    /\ ext = [limit_checks |-> << >>, charges |-> << >>]
    /\ pc = "running"
    /\ last = Last("charge", "Ok", DepositDefault)
    /\ spawned = 1
    /\ calls = 1
    /\ deposit_start = 0
    /\ sound = TRUE
    /\ charged = << >>

Instantiate ==
    /\ pc = "running"
    /\ charged = << >>
    /\ \E size \in 0..MaxInstSize :
          LET r == charge_instantiate(top.meter, ALICE, top.contract, top.info, size)
          IN  /\ stack' = SetTop([top EXCEPT !.meter = r.meter, !.info = r.info])
              /\ ext' = [ext EXCEPT !.charges = @ \o r.calls]
              /\ last' = Last("charge_instantiate", r.result, r.deposit)
              /\ charged' = << size >>
    /\ UNCHANGED << pc, spawned, calls, deposit_start, sound >>

NextInstantiate == Instantiate

SpecInstantiate == InitInstantiate /\ [][NextInstantiate]_vars

\* the deposit of a new record of encoded size size: its bytes and one item
\* at the configured prices, raised to the minimum balance
InstantiateAmount(size) ==
    Max(DepositPerByte * size + DepositPerItem, min_balance)

\* C24: a successful charge_instantiate sets total_deposit to the deposit of
\* the footprint of the new record (encoded size bytes and 1 item), raised
\* to at least the minimum balance, stamps it as the base deposit of the
\* record, leaves own_contribution unchanged and makes exactly one backend
\* charge call (origin, contract, Charge(amount), terminated = FALSE).
C24_InstantiateCharges ==
    [][(last'.op = "charge_instantiate" /\ last'.result = "Ok") =>
          LET amount == InstantiateAmount(charged'[1])
              after == stack'[Len(stack')]
          IN  /\ last'.deposit = DepositCharge(amount)
              /\ after.meter = [top.meter EXCEPT !.total_deposit = DepositCharge(amount)]
              /\ after.info = [top.info EXCEPT !.storage_base_deposit = amount]
              /\ ext'.charges
                     = Append(ext.charges,
                              [origin |-> ALICE, contract |-> top.contract,
                               amount |-> DepositCharge(amount),
                               terminated |-> FALSE])]_vars

\* C24 witness: a record of encoded size 0 on a charged meter was charged
\* the minimum balance
C24_Witness ==
    /\ last.op = "charge_instantiate"
    /\ last.result = "Ok"
    /\ charged = << 0 >>
    /\ last.deposit = DepositCharge(min_balance)
    /\ top.meter.own_contribution = Alive(Diff(4, 0, 1, 0))
    /\ Len(ext.charges) = 1

\* C25: charge_instantiate fails with StorageDepositLimitExhausted exactly
\* when the deposit, after the minimum balance floor, is greater than the
\* limit of the meter; on failure the meter, the record and the backend are
\* as they were.
C25_InstantiateLimit ==
    [][last'.op = "charge_instantiate" =>
          LET amount == InstantiateAmount(charged'[1])
          IN  /\ last'.result
                     = IF amount > top.meter.limit
                         THEN "StorageDepositLimitExhausted" ELSE "Ok"
              /\ last'.result # "Ok" =>
                     /\ stack' = stack
                     /\ ext' = ext]_vars

\* C25 witness: a deposit one above the limit was refused
C25_Witness ==
    /\ last.op = "charge_instantiate"
    /\ last.result = "StorageDepositLimitExhausted"
    /\ last.deposit = DepositCharge(top.meter.limit + 1)
    /\ ext.charges = << >>

(***************************************************************************)
(* SpecSettleSeq: a sequence of Diffs settled one after the other against  *)
(* one storage record.  stack[1].info is the record at the start,          *)
(* stack[2].info the record now and charged the deposits returned.  The    *)
(* records of SettleInfos hold deposits that the present prices would not  *)
(* give, as after a change of the prices.                                  *)
(***************************************************************************)
\* settlements made against one record
MaxSettles == 2

SeqDiffs ==
    {Diff(2, 0, 0, 0), Diff(0, 1, 0, 0), Diff(0, 5, 0, 0), Diff(0, 0, 1, 0),
     Diff(0, 0, 0, 1), Diff(0, 0, 0, 4), Diff(1, 3, 2, 1), Diff(0, 2, 0, 2)}

InitSettleSeq ==
    /\ \E info \in SettleInfos :
          stack = << Frame(RawMeter(6), BOB, info, RawMeter(6)),
                     Frame(RawMeter(6), BOB, info, RawMeter(6)) >>
    /\ ext = [limit_checks |-> << >>, charges |-> << >>]
    /\ pc = "running"
    /\ last = Last("none", "Ok", DepositDefault)
    /\ spawned = 0
    /\ calls = 0
    /\ deposit_start = 0
    /\ sound = TRUE
    /\ charged = << >>

SettleNext ==
    /\ pc = "running"
    /\ Len(charged) < MaxSettles
    /\ \E diff \in SeqDiffs :
          LET r == Diff_update_contract(diff, top.info, TRUE)
          IN  /\ stack' = SetTop([top EXCEPT !.info = r.info])
              /\ charged' = Append(charged, r.deposit)
              /\ last' = Last("update_contract", "Ok", r.deposit)
    /\ UNCHANGED << ext, pc, spawned, calls, deposit_start, sound >>

NextSettleSeq == SettleNext

SpecSettleSeq == InitSettleSeq /\ [][NextSettleSeq]_vars

RECURSIVE SignedSum(_)
\* the net amount of a sequence of deposits
SignedSum(q) == IF q = << >> THEN 0 ELSE Signed(Head(q)) + SignedSum(Tail(q))

\* C26: refunds are capped at the deposit on file: over any sequence of
\* settlements against one record, the deposits returned add up to exactly
\* the change of the record's byte plus item deposit, which never falls
\* below zero, so the refunds never exceed the initial deposits plus the
\* charges settled.
C26_RefundsCapped ==
    /\ SignedSum(charged)
           = ByteItemDeposit(stack[2].info) - ByteItemDeposit(stack[1].info)
    /\ stack[2].info.storage_byte_deposit >= 0
    /\ stack[2].info.storage_item_deposit >= 0
    /\ 0 - SignedSum(charged) <= ByteItemDeposit(stack[1].info)

\* C26 witness: two settlements that removed more than was stored have
\* refunded the whole deposit of 15 and no more
C26_Witness ==
    /\ Len(charged) = 2
    /\ stack[1].info = ContractInfo(3, 3, 10, 5, 3)
    /\ ByteItemDeposit(stack[2].info) = 0
    /\ SignedSum(charged) = 0 - 15

\* the signed effect of one dimension: the price of the units added, less
\* the share removed / stored (at most 1) of the deposit on file
DimensionEffect(price, added, removed, stored, deposit) ==
    price * added
        - (IF stored = 0 THEN 0
           ELSE IF removed >= stored THEN deposit
           ELSE (((removed * FixedU128_DIV) \div stored) * deposit) \div FixedU128_DIV)

\* C27: settling a diff against a record updates the record in the same
\* step: the counters become the old value plus the net units added minus
\* the net units removed, the deposit fields the old value plus the
\* per-dimension effect, not below zero, and the deposit returned is the
\* sum of the byte effect and the item effect.
C27_RecordUpdated ==
    pc = "done" =>
        LET diff == charged[1]
            before == stack[1].info
            after == stack[2].info
            ba == Max(diff.bytes_added - diff.bytes_removed, 0)
            bm == Max(diff.bytes_removed - diff.bytes_added, 0)
            ia == Max(diff.items_added - diff.items_removed, 0)
            im == Max(diff.items_removed - diff.items_added, 0)
            be == DimensionEffect(DepositPerByte, ba, bm, before.storage_bytes,
                                  before.storage_byte_deposit)
            ie == DimensionEffect(DepositPerItem, ia, im, before.storage_items,
                                  before.storage_item_deposit)
        IN  /\ after.storage_bytes = Max(Min(before.storage_bytes + ba, U32_MAX) - bm, 0)
            /\ after.storage_items = Max(Min(before.storage_items + ia, U32_MAX) - im, 0)
            /\ after.storage_byte_deposit = Max(before.storage_byte_deposit + be, 0)
            /\ after.storage_item_deposit = Max(before.storage_item_deposit + ie, 0)
            /\ after.storage_base_deposit = before.storage_base_deposit
            /\ Signed(last.deposit) = be + ie

\* C27 witness: a diff that adds bytes and removes items has charged 2 for
\* the bytes, refunded 2 for the items and left both written in the record
C27_Witness ==
    /\ pc = "done"
    /\ Len(stack) = 2
    /\ stack[1].info = ContractInfo(3, 2, 10, 4, 3)
    /\ charged = << Diff(2, 0, 0, 1) >>
    /\ stack[2].info = ContractInfo(5, 1, 12, 2, 3)
    /\ is_zero(last.deposit)

(***************************************************************************)
(* Settlement of a diff with no storage record (info = None).              *)
(***************************************************************************)
MaxNoneBytes == 4
MaxNoneItems == 3

NoneDiffs ==
    {Diff(ba, br, ia, ir) : ba \in 0..MaxNoneBytes, br \in {0, 1, 5},
                            ia \in 0..MaxNoneItems, ir \in {0, 2}}

InitSettleNone ==
    /\ stack = << Frame(RawMeter(6), BOB, ContractInfo(0, 0, 0, 0, 0), RawMeter(6)) >>
    /\ ext = [limit_checks |-> << >>, charges |-> << >>]
    /\ pc = "running"
    /\ last = Last("none", "Ok", DepositDefault)
    /\ spawned = 0
    /\ calls = 0
    /\ deposit_start = 0
    /\ sound = TRUE
    /\ charged = << >>

\* diff.update_contract(None): with debug assertions a diff carrying removals
\* aborts, without them the charge for the net additions is returned
SettleNone ==
    /\ pc = "running"
    /\ \E diff \in NoneDiffs :
          LET r == Diff_update_contract(diff, top.info, FALSE)
          IN  /\ charged' = << diff >>
              /\ \/ /\ ~r.assert_ok
                    /\ pc' = "panicked"
                    /\ last' = Last("update_contract", "Panic", DepositDefault)
                 \/ /\ pc' = (IF r.assert_ok THEN "done" ELSE "violated")
                    /\ last' = Last("update_contract", "Ok", r.deposit)
    /\ UNCHANGED << stack, ext, spawned, calls, deposit_start, sound >>

NextSettleNone == SettleNone

SpecSettleNone == InitSettleNone /\ [][NextSettleNone]_vars

\* C28: a diff settled with no record returns
\* Charge(DepositPerByte * bytes_added + DepositPerItem * items_added) and
\* never a Refund; settling a diff with non-zero bytes_removed or
\* items_removed with no record violates the precondition, which the
\* assertions of the call report.
C28_NoRecordChargesOnly ==
    pc # "running" =>
        LET diff == charged[1]
        IN  /\ last.deposit.tag = "Charge"
            /\ (diff.bytes_removed = 0 /\ diff.items_removed = 0) =>
                   /\ pc = "done"
                   /\ last.result = "Ok"
                   /\ last.deposit = DepositCharge(DepositPerByte * diff.bytes_added
                                                   + DepositPerItem * diff.items_added)
            /\ (diff.bytes_removed # 0 \/ diff.items_removed # 0) =>
                   pc \in {"panicked", "violated"}

\* C28 witness: 3 bytes and 2 items added with no record gave Charge(7)
C28_Witness ==
    /\ pc = "done"
    /\ charged = << Diff(3, 0, 2, 0) >>
    /\ last = Last("update_contract", "Ok", DepositCharge(7))

\* C29: charge, nested, terminate and charge_instantiate called on a meter
\* whose own contribution is Checked or Terminated abort, and leave the
\* meters, the storage records and the backend as they were.
C29_DeadMeterCallsAbort ==
    [][(last'.op \in {"charge", "nested", "terminate", "charge_instantiate"}
            /\ ~is_alive(top.meter)) =>
          /\ last'.result = "Panic"
          /\ stack' = stack
          /\ ext' = ext]_vars

RECURSIVE LedgerEntries(_)
LedgerEntries(n) ==
    IF n = 0 THEN 0 ELSE LedgerEntries(n - 1) + Len(stack[n].meter.charges)

C31_LimitImmutable ==
    [][\A i \in 1..Min(Len(stack), Len(stack')) :
           stack'[i].meter.limit = stack[i].meter.limit]_vars

\* C31 witness: a child that was charged and checked against its limit has
\* been absorbed into the root meter after an earlier absorption, and the
\* root meter, whose total deposit is now 6, still has the limit 6 it was
\* constructed with
C31_Witness ==
    /\ pc = "running"
    /\ Len(stack) = 1
    /\ last.op = "absorb"
    /\ calls >= 2
    /\ spawned >= 2
    /\ root.meter.total_deposit = DepositCharge(6)
    /\ root.meter.limit = 6
    /\ root.parent_at_spawn.limit = 6

\* C32 as stated: charge, terminate, enforce_limit, nested and
\* charge_instantiate leave the total_deposit of the meter they are called on
\* unchanged
C32_TotalOnlyByAbsorb ==
    [][last'.op \in {"charge", "terminate", "enforce_limit", "nested",
                     "charge_instantiate"} =>
          stack'[Len(stack)].meter.total_deposit = top.meter.total_deposit]_vars

\* C32: the total_deposit of a meter is changed only by absorb, on the meter
\* that absorbs, and by a successful charge_instantiate, which sets it to
\* the deposit it returns; charge, terminate, enforce_limit, nested and a
\* failed charge_instantiate leave every total_deposit unchanged.
C32_TotalByAbsorbOrInstantiate ==
    [][\A i \in 1..Min(Len(stack), Len(stack')) :
           stack'[i].meter.total_deposit # stack[i].meter.total_deposit =>
               \/ last'.op = "absorb" /\ i = Len(stack')
               \/ /\ last'.op = "charge_instantiate"
                  /\ last'.result = "Ok"
                  /\ i = Len(stack)
                  /\ stack'[i].meter.total_deposit = last'.deposit]_vars

\* C32 witness: charge_instantiate on a meter that had absorbed a child with
\* the deposit 6 succeeded and left the total deposit 5
C32_Witness ==
    /\ pc = "running"
    /\ last = Last("charge_instantiate", "Ok", DepositCharge(5))
    /\ Len(stack) = 2
    /\ top.meter.total_deposit = DepositCharge(5)
    /\ Len(top.meter.charges) = 1
    /\ top.meter.charges[1].amount = DepositCharge(6)

(***************************************************************************)
(* SpecSaturate: children of one root meter that are charged with diffs at *)
(* the bound of u32 against records at the bounds of u32 and of the        *)
(* balance, checked or terminated, and absorbed.  charged is the sequence  *)
(* of the diffs charged on the child on top of the call stack.             *)
(***************************************************************************)
MaxSatMeters == 2
MaxSatCharges == 2

SatDiffs ==
    {Diff(2, 0, 1, 0), Diff(0, 3, 0, 1), Diff(U32_MAX, 0, U32_MAX, 0),
     Diff(0, U32_MAX, 0, 0)}

SatInfos ==
    {ContractInfo(U32_MAX - 1, U32_MAX, BALANCE_MAX - 1, BALANCE_MAX, 3),
     ContractInfo(1, 0, 2, 0, 3),
     InfoOf(BOB)}

\* the state after new(ALICE, Some(BALANCE_MAX), 0)
InitSaturate ==
    /\ stack = << Frame(RawMeter(BALANCE_MAX), ALICE, ContractInfo(0, 0, 0, 0, 0),
                        RawMeter(BALANCE_MAX)) >>
    /\ ext = [limit_checks |-> << [origin |-> ALICE, limit |-> BALANCE_MAX,
                                   min_leftover |-> 0] >>,
              charges |-> << >>]
    /\ pc = "running"
    /\ last = Last("new", "Ok", DepositDefault)
    /\ spawned = 0
    /\ calls = 0
    /\ deposit_start = 0
    /\ sound = TRUE
    /\ charged = << >>

SatNested ==
    /\ pc = "running"
    /\ Len(stack) = 1
    /\ spawned < MaxSatMeters
    /\ \E info \in SatInfos :
          stack' = Append(stack, Frame(nested(top.meter), BOB, info, top.meter))
    /\ spawned' = spawned + 1
    /\ charged' = << >>
    /\ last' = Last("nested", "Ok", DepositDefault)
    /\ UNCHANGED << ext, pc, calls, deposit_start, sound >>

SatCharge ==
    /\ pc = "running"
    /\ Len(stack) = 2
    /\ is_alive(top.meter)
    /\ Len(charged) < MaxSatCharges
    /\ \E diff \in SatDiffs :
          /\ stack' = SetTop([top EXCEPT !.meter = charge(@, diff)])
          /\ charged' = Append(charged, diff)
    /\ last' = Last("charge", "Ok", DepositDefault)
    /\ UNCHANGED << ext, pc, spawned, calls, deposit_start, sound >>

SatTerminate ==
    /\ pc = "running"
    /\ Len(stack) = 2
    /\ is_alive(top.meter)
    /\ stack' = SetTop([top EXCEPT !.meter = terminate(@, top.info)])
    /\ last' = Last("terminate", "Ok", DepositDefault)
    /\ UNCHANGED << ext, pc, spawned, calls, deposit_start, sound, charged >>

SatEnforceLimit ==
    /\ pc = "running"
    /\ Len(stack) = 2
    /\ ~top.enforced
    /\ LET r == enforce_limit(top.meter, top.info, TRUE)
       IN  /\ stack' = SetTop([top EXCEPT !.meter = r.meter, !.info = r.info,
                                          !.enforced = TRUE])
           /\ last' = Last("enforce_limit", r.result, r.deposit)
    /\ UNCHANGED << ext, pc, spawned, calls, deposit_start, sound, charged >>

SatAbsorb ==
    /\ pc = "running"
    /\ Len(stack) = 2
    /\ top.enforced
    /\ LET r == absorb(parent.meter, top.meter, top.contract, top.info, TRUE)
       IN  /\ stack' = Pop([parent EXCEPT !.meter = r.meter])
           /\ last' = Last("absorb", "Ok", r.deposit)
    /\ UNCHANGED << ext, pc, spawned, calls, deposit_start, sound, charged >>

NextSaturate ==
    \/ SatNested
    \/ SatCharge
    \/ SatTerminate
    \/ SatEnforceLimit
    \/ SatAbsorb

SpecSaturate == InitSaturate /\ [][NextSaturate]_vars

\* a signed amount clamped at the bounds of the balance
ClampBalance(x) == Max(0 - BALANCE_MAX, Min(x, BALANCE_MAX))

\* every counter is within u32 and every amount within the balance
InRange ==
    \A i \in 1..Len(stack) :
        LET m == stack[i].meter
            info == stack[i].info
        IN  /\ m.total_deposit.amount \in 0..BALANCE_MAX
            /\ info.storage_bytes \in 0..U32_MAX
            /\ info.storage_items \in 0..U32_MAX
            /\ info.storage_byte_deposit \in 0..BALANCE_MAX
            /\ info.storage_item_deposit \in 0..BALANCE_MAX
            /\ \A j \in 1..Len(m.charges) : m.charges[j].amount.amount \in 0..BALANCE_MAX
            /\ IF is_alive(m)
                 THEN \A f \in DOMAIN m.own_contribution.diff :
                          m.own_contribution.diff[f] \in 0..U32_MAX
                 ELSE m.own_contribution.deposit.amount \in 0..BALANCE_MAX

\* C33: counters and amounts clamp at the bounds of their types: the diff
\* accumulated by charge is the field-wise sum of the diffs charged, at
\* most the bound of u32; settling it moves the counters of the record by
\* the net units, not below 0 and not above the bound of u32, and its
\* deposits by the effect of the dimension, not below 0 and not above the
\* bound of the balance; terminate refunds the sum of the three deposits of
\* the record, and absorb adds the settled deposit to the total, both at
\* most the bound of the balance.  No value leaves its range and no call
\* aborts.
C33_ArithmeticClamps ==
    [][/\ InRange'
       /\ pc' = "running"
       /\ last'.op = "charge" =>
              stack'[2].meter.own_contribution = Alive(SumDiff(charged'))
       /\ last'.op = "terminate" =>
              stack'[2].meter.own_contribution
                  = Terminated(DepositRefund(
                        Min(top.info.storage_byte_deposit + top.info.storage_item_deposit
                                + top.info.storage_base_deposit, BALANCE_MAX)))
       /\ (last'.op = "enforce_limit" /\ is_alive(top.meter)) =>
              LET diff == top.meter.own_contribution.diff
                  before == top.info
                  after == stack'[2].info
                  ba == Max(diff.bytes_added - diff.bytes_removed, 0)
                  bm == Max(diff.bytes_removed - diff.bytes_added, 0)
                  ia == Max(diff.items_added - diff.items_removed, 0)
                  im == Max(diff.items_removed - diff.items_added, 0)
                  be == DimensionEffect(DepositPerByte, ba, bm, before.storage_bytes,
                                        before.storage_byte_deposit)
                  ie == DimensionEffect(DepositPerItem, ia, im, before.storage_items,
                                        before.storage_item_deposit)
              IN  /\ after.storage_bytes = Max(Min(before.storage_bytes + ba, U32_MAX) - bm, 0)
                  /\ after.storage_items = Max(Min(before.storage_items + ia, U32_MAX) - im, 0)
                  /\ after.storage_byte_deposit
                         = Min(Max(before.storage_byte_deposit + be, 0), BALANCE_MAX)
                  /\ after.storage_item_deposit
                         = Min(Max(before.storage_item_deposit + ie, 0), BALANCE_MAX)
                  /\ Signed(last'.deposit) = ClampBalance(be + ie)
       /\ last'.op = "absorb" =>
              Signed(stack'[1].meter.total_deposit)
                  = ClampBalance(Signed(root.meter.total_deposit)
                                 + Signed(top.meter.own_contribution.deposit))]_vars

\* C33 witness: two diffs whose sum exceeds the bound of u32 were charged and
\* settled against a record one byte below the bound; its byte counter
\* stopped at the bound of u32 and its byte deposit at the bound of the
\* balance
C33_Witness ==
    /\ pc = "running"
    /\ Len(stack) = 2
    /\ last.op = "enforce_limit"
    /\ Len(charged) = 2
    /\ SumField(charged, "bytes_added") > U32_MAX
    /\ top.info.storage_bytes = U32_MAX
    /\ top.info.storage_byte_deposit = BALANCE_MAX

(***************************************************************************)
(* Settlement against records that store no bytes or no items.             *)
(***************************************************************************)
\* records with a stored count of zero in one or both dimensions, with and
\* without a deposit left on file for it
ZeroInfos ==
    {ContractInfo(b, i, bd, id, 3) : b \in {0, 3}, i \in {0, 2}, bd \in {0, 5, 10},
                                     id \in {0, 4}}
ZeroDiffs ==
    {Diff(ba, br, ia, ir) : ba \in {0, 1}, br \in {0, 2, 4}, ia \in {0, 1}, ir \in {0, 1, 3}}

InitSettleZero ==
    /\ \E info \in ZeroInfos :
          stack = << Frame(RawMeter(6), BOB, info, RawMeter(6)) >>
    /\ ext = [limit_checks |-> << >>, charges |-> << >>]
    /\ pc = "running"
    /\ last = Last("none", "Ok", DepositDefault)
    /\ spawned = 0
    /\ calls = 0
    /\ deposit_start = 0
    /\ sound = TRUE
    /\ charged = << >>

\* diff.update_contract(Some(info)): stack[1] keeps the record before the
\* call, stack[2] has the record after it
SettleZero ==
    /\ pc = "running"
    /\ \E diff \in ZeroDiffs :
          LET r == Diff_update_contract(diff, top.info, TRUE)
          IN  /\ stack' = Append(stack, [top EXCEPT !.info = r.info])
              /\ charged' = << diff >>
              /\ last' = Last("update_contract", "Ok", r.deposit)
    /\ pc' = "done"
    /\ UNCHANGED << ext, spawned, calls, deposit_start, sound >>

NextSettleZero == SettleZero

SpecSettleZero == InitSettleZero /\ [][NextSettleZero]_vars

\* C34: settling a diff that removes more than it adds in a dimension of
\* which the record stores nothing completes, refunds nothing for that
\* dimension and leaves the deposit of that dimension in the record as it
\* was: the deposit returned is the effect of the other dimension alone.
C34_ZeroStoredNoRefund ==
    pc = "done" =>
        LET diff == charged[1]
            before == stack[1].info
            after == stack[2].info
            bytes_case == before.storage_bytes = 0 /\ diff.bytes_removed > diff.bytes_added
            items_case == before.storage_items = 0 /\ diff.items_removed > diff.items_added
            byte_change == after.storage_byte_deposit - before.storage_byte_deposit
            item_change == after.storage_item_deposit - before.storage_item_deposit
        IN  /\ last.result = "Ok"
            /\ bytes_case =>
                   /\ byte_change = 0
                   /\ after.storage_bytes = 0
                   /\ Signed(last.deposit) = item_change
            /\ items_case =>
                   /\ item_change = 0
                   /\ after.storage_items = 0
                   /\ Signed(last.deposit) = byte_change

\* C34 witness: 4 bytes removed from a record that stores no bytes but has a
\* byte deposit of 5 on file: nothing is returned and the deposit is still 5
C34_Witness ==
    /\ pc = "done"
    /\ stack[1].info = ContractInfo(0, 2, 5, 4, 3)
    /\ charged = << Diff(0, 4, 0, 0) >>
    /\ stack[2].info = ContractInfo(0, 2, 5, 4, 3)
    /\ last.deposit = DepositCharge(0)

====
